---- MODULE Spec2Model ----
(***************************************************************************)
(* budget_bot: the free-text transaction parser, the transaction store,    *)
(* the monthly / daily aggregation and the chat handlers of                *)
(* src/budget_bot.py.                                                      *)
(*                                                                         *)
(* Text is a sequence of characters; a character is a string token.        *)
(* Module text is ASCII, so a Cyrillic letter is written by its Latin      *)
(* transliteration ("r" is the letter er, "ya" the letter ya, "E" capital  *)
(* ie), a Latin letter as "lat_h", and any other non-ASCII character by    *)
(* its code point ("U+00A0").  A message is the sequence of its lines,     *)
(* i.e. txt.split('\n').                                                   *)
(***************************************************************************)
EXTENDS Integers, Sequences, FiniteSets, TLC

(***************************************************************************)
(* Character classes                                                       *)
(***************************************************************************)
Digits == {"0", "1", "2", "3", "4", "5", "6", "7", "8", "9"}

DigitVal(c) ==
    CASE c = "0" -> 0 [] c = "1" -> 1 [] c = "2" -> 2 [] c = "3" -> 3
      [] c = "4" -> 4 [] c = "5" -> 5 [] c = "6" -> 6 [] c = "7" -> 7
      [] c = "8" -> 8 [] c = "9" -> 9

\* \s of a Python 3 str pattern, and what str.strip() strips: Unicode white space.
WhiteSpace == {" ", "U+00A0", "U+202F"}

\* unicodedata.category(ch) == 'Cf'
FormatChars == {"U+200B"}

\* unicodedata.category(ch).startswith('Z')
SeparatorChars == {" ", "U+00A0", "U+202F"}

\* MINUS_CHARS: hyphen-minus, minus sign, en dash, em dash
MINUS_CHARS == {"-", "U+2212", "U+2013", "U+2014"}

\* [\d\s  .,]
AmountChars == Digits \cup WhiteSpace \cup {".", ","}

\* SPACE_RE
SPACE_RE == WhiteSpace \cup {"U+2009", "U+2007"}

\* the currency suffix of the three patterns, which are compiled with re.I
RubSuffix == {"r", "R"}

LowerCyr == {"a", "b", "v", "g", "d", "e", "zh", "z", "i", "k", "l", "m", "n",
             "o", "p", "r", "s", "t", "u", "f", "h", "ch", "ya", "yu", "yo", "j"}
UpperCyr == {"A", "E", "R", "D", "YA"}

\* [а-яё] under re.I
CyrLetters == LowerCyr \cup UpperCyr

\* str.lower()
Lower(c) ==
    CASE c = "A" -> "a" [] c = "E" -> "e" [] c = "R" -> "r" [] c = "D" -> "d"
      [] c = "YA" -> "ya" [] OTHER -> c

(***************************************************************************)
(* String helpers                                                          *)
(***************************************************************************)
Range(s) == {s[i] : i \in 1..Len(s)}

Min(a, b) == IF a < b THEN a ELSE b

\* the length of the longest run of characters of class C that starts at s[i]
MaxRun(s, i, C) ==
    CHOOSE n \in 0..(Len(s) + 1 - Min(i, Len(s) + 1)) :
        /\ \A k \in i..(i + n - 1) : s[k] \in C
        /\ (i + n > Len(s) \/ s[i + n] \notin C)

\* str.strip()
Strip(s) ==
    LET a == MaxRun(s, 1, WhiteSpace)
        b == CHOOSE n \in 0..Len(s) :
                 /\ \A k \in (Len(s) - n + 1)..Len(s) : s[k] \in WhiteSpace
                 /\ (n = Len(s) \/ s[Len(s) - n] \notin WhiteSpace)
    IN  IF a = Len(s) THEN << >> ELSE SubSeq(s, a + 1, Len(s) - b)

LowerStr(s) == [i \in 1..Len(s) |-> Lower(s[i])]

RECURSIVE ToInt(_)
\* int() of a non-empty string of digits
ToInt(ds) ==
    IF ds = << >> THEN 0
    ELSE 10 * ToInt(SubSeq(ds, 1, Len(ds) - 1)) + DigitVal(ds[Len(ds)])

\* the characters of s that are not in C, in order
Without(s, C) == SelectSeq(s, LAMBDA c : c \notin C)

(***************************************************************************)
(* Calendar: datetime.date                                                 *)
(***************************************************************************)
MAXYEAR == 9999

IsLeap(y) == (y % 4 = 0) /\ ((y % 100 # 0) \/ (y % 400 = 0))

DaysInMonth(y, m) ==
    IF m = 2 THEN (IF IsLeap(y) THEN 29 ELSE 28)
    ELSE IF m \in {4, 6, 9, 11} THEN 30 ELSE 31

\* date(y, m, d) raises ValueError unless this holds
ValidDate(y, m, d) ==
    /\ y >= 1 /\ y <= MAXYEAR
    /\ m >= 1 /\ m <= 12
    /\ d >= 1 /\ d <= DaysInMonth(y, m)

\* None
NoDate == << >>

\* TryDate without the calendar check of date()
TryDate_Unchecked(y, m, d) == <<y, m, d>>

\* date(y, m, d) inside try/except: the date as <<y, m, d>>, or None
TryDate(y, m, d) == IF ValidDate(y, m, d) THEN <<y, m, d>> ELSE NoDate

\* comparison of two stored dates; sqlite compares their ISO texts YYYY-MM-DD,
\* which isoformat() pads to fixed width
DateLess(a, b) ==
    \/ a[1] < b[1]
    \/ a[1] = b[1] /\ a[2] < b[2]
    \/ a[1] = b[1] /\ a[2] = b[2] /\ a[3] < b[3]

DateLeq(a, b) == a = b \/ DateLess(a, b)

(***************************************************************************)
(* 5. PARSER                                                               *)
(***************************************************************************)
MONTHS_RU ==
    [name \in { <<"ya","n","v","a","r","ya">>, <<"f","e","v","r","a","l","ya">>,
                <<"m","a","r","t","a">>, <<"a","p","r","e","l","ya">>,
                <<"m","a","ya">>, <<"i","yu","n","ya">>, <<"i","yu","l","ya">>,
                <<"a","v","g","u","s","t","a">>,
                <<"s","e","n","t","ya","b","r","ya">>,
                <<"o","k","t","ya","b","r","ya">>, <<"n","o","ya","b","r","ya">>,
                <<"d","e","k","a","b","r","ya">> } |->
        CASE name = <<"ya","n","v","a","r","ya">> -> 1
          [] name = <<"f","e","v","r","a","l","ya">> -> 2
          [] name = <<"m","a","r","t","a">> -> 3
          [] name = <<"a","p","r","e","l","ya">> -> 4
          [] name = <<"m","a","ya">> -> 5
          [] name = <<"i","yu","n","ya">> -> 6
          [] name = <<"i","yu","l","ya">> -> 7
          [] name = <<"a","v","g","u","s","t","a">> -> 8
          [] name = <<"s","e","n","t","ya","b","r","ya">> -> 9
          [] name = <<"o","k","t","ya","b","r","ya">> -> 10
          [] name = <<"n","o","ya","b","r","ya">> -> 11
          [] name = <<"d","e","k","a","b","r","ya">> -> 12]

\* the configured category set (VALID_CATEGORIES of the environment): eda, proezd
VALID_CATEGORIES == { <<"e","d","a">>, <<"p","r","o","e","z","d">> }

\* the fallback category, "drugoe"
FALLBACK == <<"d","r","u","g","o","e">>

\* _normalize: the amount in kopecks, or ok = FALSE where it raises ValueError
\* (split(".") not yielding two parts, int("") of an empty whole part)
_normalize(raw) ==
    LET nosp  == Without(raw, SPACE_RE)
        clean == [i \in 1..Len(nosp) |-> IF nosp[i] = "," THEN "." ELSE nosp[i]]
        dots  == {i \in 1..Len(clean) : clean[i] = "."}
    IN  IF dots # {}
        THEN IF Cardinality(dots) # 1
             THEN [ok |-> FALSE, val |-> 0]
             ELSE LET p   == CHOOSE i \in dots : TRUE
                      rub == SubSeq(clean, 1, p - 1)
                      kop == SubSeq(SubSeq(clean, p + 1, Len(clean)) \o <<"0">>, 1, 2)
                  IN  IF rub = << >>
                      THEN [ok |-> FALSE, val |-> 0]
                      ELSE [ok |-> TRUE, val |-> ToInt(rub) * 100 + ToInt(kop)]
        ELSE IF clean = << >>
             THEN [ok |-> FALSE, val |-> 0]
             ELSE [ok |-> TRUE, val |-> ToInt(clean) * 100 + ToInt(<<"0", "0">>)]

\* _clean: drop format characters, turn separators into " ", strip
_clean(s) ==
    LET nf == Without(s, FormatChars)
    IN  Strip([i \in 1..Len(nf) |-> IF nf[i] \in SeparatorChars THEN " " ELSE nf[i]])

DateSeps == {".", "/", "-"}

\* re.match(r"(\d{1,2})[./-](\d{1,2})[./-](\d{2,4})", line): the groups, or ok = FALSE
NumericDateMatch(line) ==
    LET n1 == MaxRun(line, 1, Digits)
        n2 == MaxRun(line, n1 + 2, Digits)
        n3 == MaxRun(line, n1 + n2 + 3, Digits)
        ok == /\ n1 \in 1..2
              /\ Len(line) >= n1 + 1 /\ line[n1 + 1] \in DateSeps
              /\ n2 \in 1..2
              /\ Len(line) >= n1 + n2 + 2 /\ line[n1 + n2 + 2] \in DateSeps
              /\ n3 >= 2
    IN  IF ok
        THEN [ok |-> TRUE,
              d  |-> ToInt(SubSeq(line, 1, n1)),
              mn |-> ToInt(SubSeq(line, n1 + 2, n1 + n2 + 1)),
              y  |-> ToInt(SubSeq(line, n1 + n2 + 3, n1 + n2 + 2 + Min(n3, 4)))]
        ELSE [ok |-> FALSE, d |-> 0, mn |-> 0, y |-> 0]

\* re.match(r"(\d{1,2})\s+([а-яё]+)(?:\s+(\d{4}))?:?", line, re.I)
NamedDateMatch(line) ==
    LET n1 == MaxRun(line, 1, Digits)
        w1 == MaxRun(line, n1 + 1, WhiteSpace)
        l  == MaxRun(line, n1 + w1 + 1, CyrLetters)
        w2 == MaxRun(line, n1 + w1 + l + 1, WhiteSpace)
        n2 == MaxRun(line, n1 + w1 + l + w2 + 1, Digits)
        ok == n1 \in 1..2 /\ w1 >= 1 /\ l >= 1
    IN  IF ok
        THEN [ok    |-> TRUE,
              d     |-> ToInt(SubSeq(line, 1, n1)),
              mname |-> SubSeq(line, n1 + w1 + 1, n1 + w1 + l),
              hasY  |-> w2 >= 1 /\ n2 >= 4,
              y     |-> IF w2 >= 1 /\ n2 >= 4
                        THEN ToInt(SubSeq(line, n1 + w1 + l + w2 + 1,
                                          n1 + w1 + l + w2 + 4))
                        ELSE 0]
        ELSE [ok |-> FALSE, d |-> 0, mname |-> << >>, hasY |-> FALSE, y |-> 0]

\* _parse_date; year is datetime.now().year
_parse_date(line, year) ==
    LET m == NumericDateMatch(line)
        k == NamedDateMatch(line)
    IN  IF m.ok
        THEN TryDate(IF m.y < 100 THEN m.y + 2000 ELSE m.y, m.mn, m.d)
        ELSE IF ~k.ok THEN NoDate
        ELSE IF LowerStr(k.mname) \notin DOMAIN MONTHS_RU THEN NoDate
        ELSE TryDate(IF k.hasY THEN k.y ELSE year, MONTHS_RU[LowerStr(k.mname)], k.d)

\* SUMMARY_RE.match(ln), ln already stripped:
\* ^\s*[MINUS_CHARS]?\s*\d[\d\s.,]*r?\s*$
SUMMARY_RE(ln) ==
    LET a == IF Len(ln) >= 1 /\ ln[1] \in MINUS_CHARS THEN 2 ELSE 1
        b == a + MaxRun(ln, a, WhiteSpace)
        e == b + 1 + MaxRun(ln, b + 1, AmountChars)
    IN  /\ Len(ln) >= b /\ ln[b] \in Digits
        /\ \/ e > Len(ln)
           \/ \E k \in (b + 1)..e :
                 /\ k <= Len(ln) /\ ln[k] \in RubSuffix
                 /\ \A j \in (k + 1)..Len(ln) : ln[j] \in WhiteSpace

\* INCOME_RE / EXPENSE_RE on a stripped line: ^\s*<lead>\s*([\d\s.,]+)r?\s*(.*)$
\* with lead "+" or one of MINUS_CHARS.  \s* is greedy and gives back its last
\* character when the amount group would otherwise be empty.
AmountLineMatch(ln, Lead) ==
    LET run  == MaxRun(ln, 2, AmountChars)
        ws   == MaxRun(ln, 2, WhiteSpace)
        g1   == IF ws < run THEN SubSeq(ln, 2 + ws, 1 + run)
                ELSE SubSeq(ln, 1 + run, 1 + run)
        p    == IF Len(ln) >= 2 + run /\ ln[2 + run] \in RubSuffix
                THEN 3 + run ELSE 2 + run
        ok   == Len(ln) >= 1 /\ ln[1] \in Lead /\ run >= 1
    IN  IF ok
        THEN [ok |-> TRUE, g1 |-> g1, g2 |-> SubSeq(ln, p, Len(ln))]
        ELSE [ok |-> FALSE, g1 |-> << >>, g2 |-> << >>]

INCOME_RE(ln) == AmountLineMatch(ln, {"+"})

EXPENSE_RE(ln) == AmountLineMatch(ln, MINUS_CHARS)

RECURSIVE FindTags(_, _)
\* re.findall(r"\[([^\]]+)\]", ln), scanning from position i
FindTags(ln, i) ==
    IF i > Len(ln) THEN << >>
    ELSE IF ln[i] # "[" THEN FindTags(ln, i + 1)
    ELSE LET close == {j \in (i + 1)..Len(ln) : ln[j] = "]"}
             j     == CHOOSE x \in close : \A z \in close : x <= z
         IN  IF close = {} \/ j = i + 1
             THEN FindTags(ln, i + 1)
             ELSE <<SubSeq(ln, i + 1, j - 1)>> \o FindTags(ln, j + 1)

\* cats of an expense line: the tags found, or the single implicit fallback tag
TagsOf(ln) == IF FindTags(ln, 1) = << >> THEN <<FALLBACK>> ELSE FindTags(ln, 1)

\* cat.strip().lower(), remapped to the fallback when not configured
Category(tag) ==
    IF LowerStr(Strip(tag)) \in VALID_CATEGORIES THEN LowerStr(Strip(tag))
    ELSE FALLBACK

\* is_primary with every split row marked primary
is_primary_always(idx) == 1

\* is_primary = 1 if idx == 0 else 0   (idx counted from 0)
is_primary(idx) == IF idx = 0 THEN 1 ELSE 0

\* the comment of an income or expense line: m.group(2).strip()
Comment(m) == Strip(m.g2)

\* category of an income row: None
NoCategory == <<"None">>

\* the rows one expense line appends to res
ExpenseRows(ln, amt) ==
    LET cats == TagsOf(ln)
    IN  [k \in 1..Len(cats) |->
            [type         |-> "expense",
             amount       |-> amt,
             category     |-> Category(cats[k]),
             comment      |-> Comment(EXPENSE_RE(ln)),
             primary_flag |-> is_primary(k - 1)]]

\* the row one income line appends to res
IncomeRows(ln, amt) ==
    << [type         |-> "income",
        amount       |-> amt,
        category     |-> NoCategory,
        comment      |-> Comment(INCOME_RE(ln)),
        primary_flag |-> 1] >>

\* the test that makes the loop skip a line: empty, contains "=", or a bare total
Discarded(ln) == ln = << >> \/ "=" \in Range(ln) \/ SUMMARY_RE(ln)

\* ParseLine with the income and expense rules tried before the discard rule
ParseLine_amounts_first(ln) ==
    IF INCOME_RE(ln).ok /\ _normalize(INCOME_RE(ln).g1).ok
    THEN [kind |-> "income",
          rows |-> IncomeRows(ln, _normalize(INCOME_RE(ln).g1).val)]
    ELSE IF EXPENSE_RE(ln).ok /\ _normalize(EXPENSE_RE(ln).g1).ok
    THEN [kind |-> "expense",
          rows |-> ExpenseRows(ln, _normalize(EXPENSE_RE(ln).g1).val)]
    ELSE IF Discarded(ln) THEN [kind |-> "skip", rows |-> << >>]
    ELSE IF INCOME_RE(ln).ok \/ EXPENSE_RE(ln).ok
    THEN [kind |-> "raise", rows |-> << >>]
    ELSE [kind |-> "unparsed", rows |-> << >>]

\* one pass of the loop body of parse_transaction over the stripped line ln:
\* what the line is taken for, and the rows it appends
ParseLine(ln) ==
    IF Discarded(ln) THEN [kind |-> "skip", rows |-> << >>]
    ELSE IF INCOME_RE(ln).ok
    THEN IF _normalize(INCOME_RE(ln).g1).ok
         THEN [kind |-> "income",
               rows |-> IncomeRows(ln, _normalize(INCOME_RE(ln).g1).val)]
         ELSE [kind |-> "raise", rows |-> << >>]
    ELSE IF EXPENSE_RE(ln).ok
    THEN IF _normalize(EXPENSE_RE(ln).g1).ok
         THEN [kind |-> "expense",
               rows |-> ExpenseRows(ln, _normalize(EXPENSE_RE(ln).g1).val)]
         ELSE [kind |-> "raise", rows |-> << >>]
    ELSE [kind |-> "unparsed", rows |-> << >>]

RECURSIVE Join(_)
\* ' '.join(lines)
Join(lines) ==
    IF lines = << >> THEN << >>
    ELSE IF Len(lines) = 1 THEN lines[1]
    ELSE lines[1] \o <<" ">> \o Join(Tail(lines))

\* s[:n]
Prefix(s, n) == SubSeq(s, 1, Min(n, Len(s)))

\* what log_unparsed.info writes
LogEntry(tag, d, text) == [tag |-> tag, date |-> d, text |-> text]

\* lines = [ln for ln in txt.split('\n') if ln.strip()]
NonEmptyLines(txt) == SelectSeq(txt, LAMBDA ln : Strip(ln) # << >>)

RECURSIVE ParseBody(_, _, _, _, _)
\* the loop of parse_transaction from line i on; res and log are the rows
\* and the log entries so far.  src[k] is the line number res[k] came from.
ParseBody(lines, i, d, acc, log) ==
    IF i > Len(lines)
    THEN [raised |-> FALSE, d |-> d, rows |-> acc.res, src |-> acc.src, log |-> log]
    ELSE LET ln == Strip(lines[i])
             r  == ParseLine(ln)
         IN  IF r.kind = "raise"
             THEN [raised |-> TRUE, d |-> d, rows |-> << >>, src |-> << >>, log |-> log]
             ELSE IF r.kind = "unparsed"
             THEN ParseBody(lines, i + 1, d, acc,
                      log \o <<LogEntry("UNPARSED", d, Prefix(ln, 80))>>
                          \o (IF acc.res = << >>
                              THEN <<LogEntry("FLAT", d, Prefix(Join(lines), 120))>>
                              ELSE << >>))
             ELSE ParseBody(lines, i + 1, d,
                      [res |-> acc.res \o r.rows,
                       src |-> acc.src \o [k \in 1..Len(r.rows) |-> i]],
                      log)

\* whether parse_transaction gives the block up for want of a date
HeaderRejected(d) == d = NoDate

\* parse_transaction(txt); year is datetime.now().year.  raised: a ValueError
\* of _normalize leaves the function; log: the entries written on the way.
parse_transaction(txt, year) ==
    LET lines == NonEmptyLines(txt)
    IN  IF lines = << >>
        THEN [raised |-> FALSE, d |-> NoDate, rows |-> << >>, src |-> << >>,
              log |-> << >>]
        ELSE LET d == _parse_date(_clean(lines[1]), year)
             IN  IF HeaderRejected(d)
                 THEN [raised |-> FALSE, d |-> NoDate, rows |-> << >>, src |-> << >>,
                       log |-> <<LogEntry("NO_DATE_HEADER", NoDate,
                                          Prefix(lines[1], 90))>>]
                 ELSE ParseBody(lines, 2, d, [res |-> << >>, src |-> << >>], << >>)

(***************************************************************************)
(* 4. DATABASE: the transactions table, in rowid order                     *)
(***************************************************************************)
\* the tuples add_transactions inserts: (d, *r) for r in rows
Inserted(d, rows) ==
    [k \in 1..Len(rows) |->
        [date         |-> d,
         type         |-> rows[k].type,
         amount       |-> rows[k].amount,
         category     |-> rows[k].category,
         comment      |-> rows[k].comment,
         primary_flag |-> rows[k].primary_flag]]

\* add_transactions(d, rows): the table afterwards
add_transactions(table, d, rows) ==
    IF rows = << >> THEN table ELSE table \o Inserted(d, rows)

\* init_db that creates the table anew
init_db_recreate(table) == << >>

\* init_db(): CREATE TABLE IF NOT EXISTS, and the primary_flag column added
\* when missing; the rows of an existing table stay as they are
init_db(table) == table

(***************************************************************************)
(* 6. REPORTS                                                              *)
(***************************************************************************)
\* _bounds without the step into the next year after December
_bounds_nowrap(y, m) ==
    LET em == IF m = 12 THEN 1 ELSE m + 1
    IN  IF ValidDate(y, m, 1) /\ ValidDate(y, em, 1)
        THEN [ok |-> TRUE, st |-> <<y, m, 1>>, en |-> <<y, em, 1>>]
        ELSE [ok |-> FALSE, st |-> NoDate, en |-> NoDate]

\* _bounds(y, m): [first of the month, first of the next month), or
\* ok = FALSE where date() raises ValueError
_bounds(y, m) ==
    LET ey == IF m = 12 THEN y + 1 ELSE y
        em == IF m = 12 THEN 1 ELSE m + 1
    IN  IF ValidDate(y, m, 1) /\ ValidDate(ey, em, 1)
        THEN [ok |-> TRUE, st |-> <<y, m, 1>>, en |-> <<ey, em, 1>>]
        ELSE [ok |-> FALSE, st |-> NoDate, en |-> NoDate]

\* WHERE date >= st AND date < en
InRange(r, b) == DateLeq(b.st, r.date) /\ DateLess(r.date, b.en)

RECURSIVE SumAmount(_)
\* SUM(amount) over rows, 0 standing for the NULL of no rows ("or 0")
SumAmount(rows) ==
    IF rows = << >> THEN 0 ELSE rows[1].amount + SumAmount(Tail(rows))

\* x / 100 of Python, x in kopecks: the figure in roubles, kept exactly as
\* sign, whole roubles and kopecks
Major(x) ==
    [sign |-> IF x < 0 THEN -1 ELSE 1,
     rub  |-> (IF x < 0 THEN -x ELSE x) \div 100,
     kop  |-> (IF x < 0 THEN -x ELSE x) % 100]

RECURSIVE SortDates(_)
\* a set of dates, ascending
SortDates(ds) ==
    IF ds = {} THEN << >>
    ELSE LET lo == CHOOSE d \in ds : \A e \in ds : DateLeq(d, e)
         IN  <<lo>> \o SortDates(ds \ {lo})

RECURSIVE Flatten(_)
Flatten(ss) == IF ss = << >> THEN << >> ELSE ss[1] \o Flatten(Tail(ss))

\* ORDER BY date: rows by date, rows of one date in rowid order
OrderByDate(rows) ==
    LET ds == SortDates({rows[k].date : k \in 1..Len(rows)})
    IN  Flatten([k \in 1..Len(ds) |-> SelectSeq(rows, LAMBDA r : r.date = ds[k])])

\* get_summary(y, m) for a valid month: inc, exp, cats and transactions.
\* cats is the set of (category, figure) pairs of the GROUP BY.
get_summary(table, y, m) ==
    LET b     == _bounds(y, m)
        incs  == SelectSeq(table, LAMBDA r : r.type = "income" /\ InRange(r, b))
        prim  == SelectSeq(table, LAMBDA r : r.type = "expense" /\ r.primary_flag = 1
                                          /\ InRange(r, b))
        exps  == SelectSeq(table, LAMBDA r : r.type = "expense" /\ InRange(r, b))
        names == {exps[k].category : k \in 1..Len(exps)}
    IN  [inc  |-> Major(SumAmount(incs)),
         exp  |-> Major(SumAmount(prim)),
         cats |-> { <<c, Major(0 - SumAmount(SelectSeq(exps,
                                LAMBDA r : r.category = c)))>> : c \in names },
         transactions |->
             [c \in names |->
                 LET rs == OrderByDate(SelectSeq(exps, LAMBDA r : r.category = c))
                 IN  [k \in 1..Len(rs) |->
                        <<rs[k].date, Major(0 - rs[k].amount), rs[k].comment>>]]]

\* get_daily(y, m) for a valid month: (date, inc, exp) per day, by date; both
\* sums are divided by 100 in SQL, integer by integer
get_daily(table, y, m) ==
    LET b   == _bounds(y, m)
        sel == SelectSeq(table, LAMBDA r : InRange(r, b))
        ds  == SortDates({sel[k].date : k \in 1..Len(sel)})
    IN  [k \in 1..Len(ds) |->
            <<ds[k],
              SumAmount(SelectSeq(sel, LAMBDA r : r.date = ds[k]
                                       /\ r.type = "income")) \div 100,
              SumAmount(SelectSeq(sel, LAMBDA r : r.date = ds[k]
                                       /\ r.type = "expense"
                                       /\ r.primary_flag = 1)) \div 100>>]

(***************************************************************************)
(* Input texts: header lines (H_) and body lines (L_) in the model's       *)
(* alphabet.                                                               *)
(***************************************************************************)
\* 07.04.2025
H_num == << "0", "7", ".", "0", "4", ".", "2", "0", "2", "5" >>
\* 7 aprelya:  (no year: the current year)
H_apr7 == << "7", " ", "a", "p", "r", "e", "l", "ya", ":" >>
\* 31.12.25  (two-digit year)
H_dec == << "3", "1", ".", "1", "2", ".", "2", "5" >>
\* zero width space, 1, no-break space, Yanvarya 2026
H_jan ==
    << "U+200B", "1", "U+00A0", "YA", "n", "v", "a", "r", "ya", " ", "2",
       "0", "2", "6" >>
\* 31.02.2025: no such day
H_feb31 == << "3", "1", ".", "0", "2", ".", "2", "0", "2", "5" >>
\* hello world, in Latin letters
H_hello ==
    << "lat_h", "lat_e", "lat_l", "lat_l", "lat_o", " ", "lat_w", "lat_o",
       "lat_r", "lat_l", "lat_d" >>
\* -250r hleb [eda]
L_bread ==
    << "-", "2", "5", "0", "r", " ", "h", "l", "e", "b", " ", "[", "e", "d",
       "a", "]" >>
\* -300r taksi [eda][proezd]
L_taxi ==
    << "-", "3", "0", "0", "r", " ", "t", "a", "k", "s", "i", " ", "[", "e",
       "d", "a", "]", "[", "p", "r", "o", "e", "z", "d", "]" >>
\* +50 000r zarplata
L_salary ==
    << "+", "5", "0", " ", "0", "0", "0", "r", " ", "z", "a", "r", "p", "l",
       "a", "t", "a" >>
\* +100,50r avans
L_kop ==
    << "+", "1", "0", "0", ",", "5", "0", "r", " ", "a", "v", "a", "n", "s" >>
\* +500r avans = 1500
L_eq ==
    << "+", "5", "0", "0", "r", " ", "a", "v", "a", "n", "s", " ", "=", " ",
       "1", "5", "0", "0" >>
\* -250r: a bare total
L_total == << "-", "2", "5", "0", "r" >>
\* -1.2.3r taksi: two decimal separators
L_bad == << "-", "1", ".", "2", ".", "3", "r", " ", "t", "a", "k", "s", "i" >>
\* kupil hleb: neither income nor expense
L_note == << "k", "u", "p", "i", "l", " ", "h", "l", "e", "b" >>
\* minus sign U+2212, 40 kofe: no suffix, no tag
L_coffee == << "U+2212", "4", "0", " ", "k", "o", "f", "e" >>
\* two spaces, -70,5r kino [EDA ][d]: capitals, an unconfigured tag
L_kino ==
    << " ", " ", "-", "7", "0", ",", "5", "r", " ", "k", "i", "n", "o", " ",
       "[", "E", "D", "A", " ", "]", "[", "d", "]" >>
\* two spaces
L_blank == << " ", " " >>
\* the empty line: the text of a photo without caption
L_none == << >>

\* the messages the model sends: each is txt.split('\n')
M_example == << H_num, L_bread, L_taxi >>
M_salary == << H_apr7, L_salary, L_total, L_eq >>
M_dec == << H_dec, L_kop, L_kino >>
M_jan == << L_blank, H_jan, L_coffee, L_note >>
M_feb31 == << H_feb31, L_bread, L_salary >>
M_hello == << H_hello, L_bread >>
M_badamt == << H_num, L_bread, L_bad >>
M_notes == << H_apr7, L_note, L_total >>
M_empty == << L_none >>

Messages == { M_example, M_salary, M_dec, M_jan, M_feb31, M_hello, M_badamt,
              M_notes, M_empty }

(***************************************************************************)
(* 7. HANDLERS                                                             *)
(*                                                                         *)
(* A handler runs to completion before the next update is handled.  id is  *)
(* the message_id of the update; the messages the bot sends in reply get   *)
(* the ids that follow it.                                                 *)
(***************************************************************************)
\* what a handler did: the buffer and table it leaves, the kind of its
\* reply, the ids of the messages it sent, the ids it asked to delete, and
\* whether an exception left it
Outcome(gc, table, reply, sent, deleted, raised) ==
    [GC_BUFFER |-> gc, store |-> table, reply |-> reply, sent |-> sent,
     deleted |-> deleted, raised |-> raised]

\* GC_BUFFER.append(msg.message_id)
BufferIncoming(gc, id) == Append(gc, id)

\* GC_BUFFER.append(bot_msg.message_id)
BufferReply(gc, bot_id) == Append(gc, bot_id)

\* _incoming(msg), p being parse_transaction(text)
_incoming(gc, table, id, p) ==
    IF p.raised
    THEN Outcome(BufferIncoming(gc, id), table, "none", << >>, << >>, TRUE)
    ELSE IF p.rows = << >>
    THEN Outcome(BufferIncoming(gc, id), table, "none", << >>, << >>, FALSE)
    ELSE Outcome(BufferReply(BufferIncoming(gc, id), id + 1),
                 add_transactions(table, p.d, p.rows),
                 "ack", <<id + 1>>, << >>, FALSE)

\* the text of a /summary or /daily command after the command word: how many
\* words follow, and the first of them as int() reads it (isint = FALSE
\* where int() raises ValueError)
Arg(n, isint, mm) == [n |-> n, isint |-> isint, mm |-> mm]

\* _, mm = msg.text.split(); mm = int(mm)  raises ValueError
BadArg(arg) == arg.n # 1 \/ ~arg.isint

\* to_delete = GC_BUFFER.copy(); to_delete.append(msg.id)
to_delete(gc, id) == Append(gc, id)

\* the buffer left as it is after the deletions
Cleared_forgotten(gc) == gc

\* GC_BUFFER.clear()
Cleared(gc) == << >>

\* _summary(msg)
_summary(gc, table, id, arg, year) ==
    IF BadArg(arg)
    THEN Outcome(gc, table, "hint", <<id + 1>>, << >>, FALSE)
    ELSE IF ~_bounds(year, arg.mm).ok
    THEN Outcome(gc, table, "none", << >>, << >>, TRUE)
    ELSE IF /\ get_summary(table, year, arg.mm).inc = Major(0)
            /\ get_summary(table, year, arg.mm).exp = Major(0)
    THEN Outcome(gc, table, "nodata", <<id + 1>>, << >>, FALSE)
    ELSE Outcome(Cleared(gc), table, "report", <<id + 1, id + 2>>,
                 to_delete(gc, id), FALSE)

\* _daily(msg)
_daily(gc, table, id, arg, year) ==
    IF BadArg(arg)
    THEN Outcome(gc, table, "hint", <<id + 1>>, << >>, FALSE)
    ELSE IF ~_bounds(year, arg.mm).ok
    THEN Outcome(gc, table, "none", << >>, << >>, TRUE)
    ELSE IF get_daily(table, year, arg.mm) = << >>
    THEN Outcome(gc, table, "nodata", <<id + 1>>, << >>, FALSE)
    ELSE Outcome(gc, table, "report", <<id + 1>>, << >>, FALSE)

\* send_menu(msg), _help(msg): one message sent
send_menu(gc, table, id) == Outcome(gc, table, "menu", <<id + 1>>, << >>, FALSE)

_help(gc, table, id) == Outcome(gc, table, "help", <<id + 1>>, << >>, FALSE)

\* pick_summary(call): get_summary, get_daily, two messages sent; nid is the
\* id the first of them gets
pick_summary(gc, table, nid, y, m) ==
    Outcome(gc, table, "report", <<nid, nid + 1>>, << >>, FALSE)

\* pick_year(call), show_details(call), go_back(call): the message under the
\* button is edited
pick_year(gc, table, y) == Outcome(gc, table, "edit", << >>, << >>, FALSE)

show_details(gc, table, y, m, category) ==
    Outcome(gc, table, "edit", << >>, << >>, FALSE)

go_back(gc, table, y, m) == Outcome(gc, table, "edit", << >>, << >>, FALSE)

(***************************************************************************)
(* The bot as a state machine                                              *)
(***************************************************************************)
\* how many updates and restarts a behaviour of the model holds
MaxUpdates == 3

\* datetime.now().year while the model runs
NowYears == {2025}

\* the arguments the model gives /summary and /daily
CommandArgs == { Arg(0, FALSE, 0), Arg(1, FALSE, 0), Arg(1, TRUE, 4),
                 Arg(1, TRUE, 12), Arg(1, TRUE, 13) }

\* the category names on the buttons of a summary
ButtonCategories == {<<"e","d","a">>, FALLBACK}

\* the months whose buttons the model presses, of the twelve of pick_year
ButtonMonths == {4, 12}

\* parse_transaction over the model's inputs, computed once
Parsed == [txt \in Messages, y \in NowYears |-> parse_transaction(txt, y)]

VARIABLES
    store,      \* the transactions table, in rowid order
    GC_BUFFER,  \* the ids to delete at the next /summary
    log,        \* unparsed.log
    now_year,   \* datetime.now().year
    next_id,    \* the message_id the next message of the chat gets
    updates,    \* updates and restarts so far
    origin,     \* history: origin[k] = <<message id, line number>> of store[k]
    pending,    \* history: ids of the text / photo messages received and of
                \* the acknowledgements sent since the last /summary report
    last        \* history: the last handler run and what it did

vars == << store, GC_BUFFER, log, now_year, next_id, updates, origin, pending,
           last >>

\* the record of a handler run
Ran(op, id, txt, p, before, out) ==
    [op |-> op, id |-> id, txt |-> txt, parsed |-> p, gc_before |-> before,
     reply |-> out.reply, sent |-> out.sent, deleted |-> out.deleted,
     raised |-> out.raised]

NoParse == [raised |-> FALSE, d |-> NoDate, rows |-> << >>, src |-> << >>,
            log |-> << >>]

NoOutcome == Outcome(<< >>, << >>, "none", << >>, << >>, FALSE)

Init ==
    /\ store = init_db(<< >>)
    /\ GC_BUFFER = << >>
    /\ log = << >>
    /\ now_year \in NowYears
    /\ next_id = 1
    /\ updates = 0
    /\ origin = << >>
    /\ pending = << >>
    /\ last = Ran("start", 0, << >>, NoParse, << >>, NoOutcome)

\* what every handler run does to the chat and to the history
Handled(op, id, txt, p, out, used) ==
    /\ updates < MaxUpdates
    /\ updates' = updates + 1
    /\ store' = out.store
    /\ GC_BUFFER' = out.GC_BUFFER
    /\ next_id' = next_id + used + Len(out.sent)
    /\ last' = Ran(op, id, txt, p, GC_BUFFER, out)
    /\ UNCHANGED now_year

\* a text message, or a photo with its caption, arrives
Incoming(txt) ==
    \E p \in {Parsed[txt, now_year]} :
    \E out \in {_incoming(GC_BUFFER, store, next_id, p)} :
        /\ Handled("incoming", next_id, txt, p, out, 1)
        /\ log' = log \o p.log
        /\ origin' = origin \o [k \in 1..(Len(out.store) - Len(store)) |->
                                   <<next_id, p.src[k]>>]
        /\ pending' = pending \o <<next_id>> \o
                      (IF out.reply = "ack" THEN out.sent ELSE << >>)

\* /summary arrives
Summary(arg) ==
    \E out \in {_summary(GC_BUFFER, store, next_id, arg, now_year)} :
        /\ Handled("summary", next_id, << >>, NoParse, out, 1)
        /\ pending' = IF out.reply = "report" THEN << >> ELSE pending
        /\ UNCHANGED << log, origin >>

\* /daily arrives
Daily(arg) ==
    \E out \in {_daily(GC_BUFFER, store, next_id, arg, now_year)} :
        /\ Handled("daily", next_id, << >>, NoParse, out, 1)
        /\ UNCHANGED << log, origin, pending >>

\* /menu arrives
Menu ==
    /\ Handled("menu", next_id, << >>, NoParse,
               send_menu(GC_BUFFER, store, next_id), 1)
    /\ UNCHANGED << log, origin, pending >>

\* /start or /help arrives
Help ==
    /\ Handled("help", next_id, << >>, NoParse,
               _help(GC_BUFFER, store, next_id), 1)
    /\ UNCHANGED << log, origin, pending >>

\* a year button of the menu is pressed
PickYear(y) ==
    /\ Handled("pick_year", 0, << >>, NoParse, pick_year(GC_BUFFER, store, y), 0)
    /\ UNCHANGED << log, origin, pending >>

\* a month button is pressed
PickSummary(y, m) ==
    /\ Handled("pick_summary", 0, << >>, NoParse,
               pick_summary(GC_BUFFER, store, next_id, y, m), 0)
    /\ UNCHANGED << log, origin, pending >>

\* a category button of a summary is pressed
ShowDetails(y, m, c) ==
    /\ Handled("show_details", 0, << >>, NoParse,
               show_details(GC_BUFFER, store, y, m, c), 0)
    /\ UNCHANGED << log, origin, pending >>

\* the back button of a details message is pressed
GoBack(y, m) ==
    /\ Handled("go_back", 0, << >>, NoParse, go_back(GC_BUFFER, store, y, m), 0)
    /\ UNCHANGED << log, origin, pending >>

\* the process is started again: module level code and init_db()
Restart ==
    /\ updates < MaxUpdates
    /\ updates' = updates + 1
    /\ store' = init_db(store)
    /\ GC_BUFFER' = << >>
    /\ log' = << >>
    /\ pending' = << >>
    /\ last' = Ran("restart", 0, << >>, NoParse, GC_BUFFER, NoOutcome)
    /\ UNCHANGED << now_year, next_id, origin >>

\* the years whose buttons the model presses, of the four of send_menu
MenuYears == {now_year - 1, now_year}

Session ==
    \/ \E txt \in Messages : Incoming(txt)
    \/ \E arg \in CommandArgs : Summary(arg)
    \/ \E arg \in CommandArgs : Daily(arg)
    \/ Menu
    \/ Help
    \/ \E y \in MenuYears : PickYear(y)
    \/ \E y \in MenuYears, m \in ButtonMonths : PickSummary(y, m)
    \/ \E y \in MenuYears, m \in ButtonMonths, c \in ButtonCategories : ShowDetails(y, m, c)
    \/ \E y \in MenuYears, m \in ButtonMonths : GoBack(y, m)

Next == Session \/ Restart

\* the bot, restarts included
Spec == Init /\ [][Next]_vars

\* one run of the process
SpecSession == Init /\ [][Session]_vars

(***************************************************************************)
(* Properties                                                              *)
(***************************************************************************)
\* a figure of get_summary back in kopecks
MinorOf(v) == v.sign * (v.rub * 100 + v.kop)

RECURSIVE SumFigures(_)
\* the sum, in kopecks, of the figures of a set of (category, figure) pairs
SumFigures(cats) ==
    IF cats = {} THEN 0
    ELSE LET c == CHOOSE x \in cats : TRUE
         IN  MinorOf(c[2]) + SumFigures(cats \ {c})

RECURSIVE SumSeq(_)
SumSeq(ns) == IF ns = << >> THEN 0 ELSE ns[1] + SumSeq(Tail(ns))

\* the years the properties look at: those of the input texts and their neighbours
ReportYears == {2024, 2025, 2026, 2027}

\* s is a prefix of t
IsPrefix(s, t) == Len(s) <= Len(t) /\ SubSeq(t, 1, Len(s)) = s

\* the rows of the table that came from message id, in rowid order
StoredFrom(id) ==
    LET ks == {k \in 1..Len(store) : origin[k][1] = id}
    IN  [j \in 1..Cardinality(ks) |->
            store[CHOOSE k \in ks : Cardinality({x \in ks : x < k}) = j - 1]]

\* a handler has just run on an incoming text
JustIncoming == last.op = "incoming"

\* the texts whose first non-empty line yields no date: 31 February, and a
\* line of neither date form
NoDateMessages == {M_feb31, M_hello}

\* C1: handling a message whose first non-empty line yields no date leaves the
\* transactions table as it was, whatever lines follow the header.
C1_BlockRejectionAtomic ==
    [][(last'.op = "incoming" /\ updates' # updates /\ last'.txt \in NoDateMessages)
          => store' = store]_vars

\* C1 witness: a block with a 31 February header and two well-formed lines has
\* been handled while the table held rows.
C1_Witness == JustIncoming /\ last.txt = M_feb31 /\ store # << >>

\* an expense line stored for month (y, m) carried more than one tag: two rows
\* of the month come from the same line of the same message
MultiTagLineIn(y, m) ==
    \E j, k \in 1..Len(store) :
        /\ j # k /\ origin[j] = origin[k]
        /\ store[j].date[1] = y /\ store[j].date[2] = m

\* C2 as stated: for every month the expense figure of get_summary is at most
\* the sum of its per-category figures, with equality exactly when no expense
\* line stored for the month carried more than one tag.
C2_TotalVsBreakdown ==
    \A y \in ReportYears, m \in 1..12 :
        LET s == get_summary(store, y, m)
        IN  /\ MinorOf(s.exp) <= SumFigures(s.cats)
            /\ (MinorOf(s.exp) = SumFigures(s.cats)) <=> ~MultiTagLineIn(y, m)

\* the expense lines of the input texts, each with the categories its tags
\* stand for, in tag order (the fallback where a tag is not configured or
\* the line has none)
ExpenseLineCategories ==
    [ln \in {L_bread, L_taxi, Strip(L_kino), L_coffee} |->
        CASE ln = L_bread -> << <<"e","d","a">> >>
          [] ln = L_taxi -> << <<"e","d","a">>, <<"p","r","o","e","z","d">> >>
          [] ln = L_coffee -> << <<"d","r","u","g","o","e">> >>
          [] OTHER -> << <<"e","d","a">>, <<"d","r","u","g","o","e">> >> ]

\* the rows of a parse that came from line i
RowsOfLine(p, i) ==
    LET ks == {k \in 1..Len(p.rows) : p.src[k] = i}
    IN  [j \in 1..Cardinality(ks) |->
            p.rows[CHOOSE k \in ks : Cardinality({x \in ks : x < k}) = j - 1]]

InvalidAmountLines == {L_bad}

\* C4 as stated: a line whose amount fails normalization is passed over like
\* an unrecognized line: no exception leaves the handler, and the rows of the
\* other lines of the block are stored.
C4_InvalidAmountLocal ==
    (JustIncoming /\ \E i \in 1..Len(last.txt) : last.txt[i] \in InvalidAmountLines)
      => /\ ~last.raised
         /\ StoredFrom(last.id) =
               LET rest == SelectSeq(last.txt, LAMBDA ln : ln \notin InvalidAmountLines)
                   p    == parse_transaction(rest, now_year)
               IN  Inserted(p.d, p.rows)

\* C5 as stated: the block dated 2025-04-07 with the lines "-250r hleb [eda]"
\* and "-300r taksi [eda][proezd]" yields exactly three expense rows, whose
\* comments are the text after the amount without the bracketed tags.
C5_CommentWithoutTags ==
    (JustIncoming /\ last.txt = M_example) =>
        StoredFrom(last.id) =
          << [date |-> <<2025, 4, 7>>, type |-> "expense", amount |-> 25000,
              category |-> <<"e","d","a">>, comment |-> <<"h","l","e","b">>,
              primary_flag |-> 1],
             [date |-> <<2025, 4, 7>>, type |-> "expense", amount |-> 30000,
              category |-> <<"e","d","a">>, comment |-> <<"t","a","k","s","i">>,
              primary_flag |-> 1],
             [date |-> <<2025, 4, 7>>, type |-> "expense", amount |-> 30000,
              category |-> <<"p","r","o","e","z","d">>,
              comment |-> <<"t","a","k","s","i">>, primary_flag |-> 0] >>

\* the kopecks of the income rows dated in month (y, m)
MonthIncome(y, m) ==
    SumAmount(SelectSeq(store, LAMBDA r : r.date[1] = y /\ r.date[2] = m
                                          /\ r.type = "income"))

\* the kopecks of the primary expense rows dated in month (y, m)
MonthPrimaryExpense(y, m) ==
    SumAmount(SelectSeq(store, LAMBDA r : r.date[1] = y /\ r.date[2] = m
                                          /\ r.type = "expense"
                                          /\ r.primary_flag = 1))

\* C6 as stated: the per-day figures of get_daily lose no kopecks: over a
\* month they add up to the income and the expense figure of get_summary, there
\* is one row per day with records, and the rows are in date order.
C6_DailyExact ==
    \A y \in ReportYears, m \in 1..12 :
        LET rows == get_daily(store, y, m)
            s    == get_summary(store, y, m)
        IN  /\ 100 * SumSeq([k \in 1..Len(rows) |-> rows[k][2]]) = MinorOf(s.inc)
            /\ 100 * SumSeq([k \in 1..Len(rows) |-> rows[k][3]]) = MinorOf(s.exp)
            /\ {rows[k][1] : k \in 1..Len(rows)} =
                  {store[j].date : j \in {x \in 1..Len(store) :
                        store[x].date[1] = y /\ store[x].date[2] = m}}
            /\ \A j, k \in 1..Len(rows) : j < k => DateLess(rows[j][1], rows[k][1])

\* C7: every step keeps the rows of the table as they are, in place; rows are
\* added only by an incoming message that parsed to rows, and are those rows;
\* reports, commands, callbacks and restarts leave the table as it was.
C7_AppendOnly ==
    [][/\ IsPrefix(store, store')
       /\ store' # store =>
             /\ last'.op = "incoming" /\ ~last'.raised
             /\ last'.parsed.rows # << >>
             /\ store' = store \o Inserted(last'.parsed.d, last'.parsed.rows)
       /\ (updates' # updates /\ last'.op # "incoming") => store' = store]_vars

\* C7 witness: the process has been restarted over a table that holds the rows
\* of a stored block.
C7_Witness == last.op = "restart" /\ Len(store) >= 2

DiscardLines == {L_eq, L_total}

\* C9: a line with "=" or of the bare-total shape yields no row and no entry of
\* the unparsed log, though it has the income or expense shape.
C9_DiscardFirst ==
    /\ JustIncoming =>
          \A i \in 1..Len(NonEmptyLines(last.txt)) :
              NonEmptyLines(last.txt)[i] \in DiscardLines =>
                 /\ RowsOfLine(last.parsed, i) = << >>
                 /\ \A k \in 1..Len(last.parsed.log) :
                       last.parsed.log[k].tag = "UNPARSED" =>
                          last.parsed.log[k].text \notin DiscardLines
    /\ (JustIncoming /\ last.txt = M_salary) => Len(StoredFrom(last.id)) = 1
    /\ \A k \in 1..Len(log) :
          log[k].tag = "UNPARSED" => log[k].text \notin DiscardLines

\* C9 witness: the block with an income line, a bare total and an "=" line has
\* been handled and acknowledged.
C9_Witness == JustIncoming /\ last.txt = M_salary /\ last.reply = "ack"

\* C10: GC_BUFFER holds exactly the ids of the text and photo messages received
\* and of the acknowledgements sent since the last /summary that found data;
\* such a /summary asks to delete every buffered id and its own, none of the
\* two reports it sent, and leaves the buffer empty; a /summary answered by the
\* usage hint or by "no data" leaves the buffer as it was.
C10_BufferDiscipline ==
    /\ GC_BUFFER = pending
    /\ (last.op = "summary" /\ last.reply = "report") =>
          /\ last.deleted = last.gc_before \o <<last.id>>
          /\ GC_BUFFER = << >>
          /\ Len(last.sent) = 2
          /\ Range(last.sent) \cap Range(last.deleted) = {}
    /\ (last.op = "summary" /\ last.reply \in {"hint", "nodata"}) =>
          GC_BUFFER = last.gc_before

\* C10 witness: a /summary found data while the buffer held a message and its
\* acknowledgement.
C10_Witness ==
    last.op = "summary" /\ last.reply = "report" /\ Len(last.deleted) >= 3
====
